---- MODULE Spec2Model ----
(***************************************************************************)
(* Model of PlayerStatsCollector (src/analysis/player_stats.py): the       *)
(* retrieval of game logs, the derivation of the advanced metrics and the  *)
(* projection/sort that get_player_stats returns.                          *)
(*                                                                         *)
(* A DataFrame is a record [cols, index, rows]: the column labels in       *)
(* order, the index labels in row order, and one function column -> cell   *)
(* per row.  DataFrames live on a heap (a sequence, a reference is a       *)
(* position in it) so that "the same object" and "an equal copy" differ.   *)
(* A cell is a record [k, n, d, s]: k = "num" is the number n/d, "nan" a   *)
(* missing value (None/NaN), "inf" an infinity of sign n, "str" the string *)
(* s, kept as a sequence of one-character strings.  Floats are modelled by *)
(* exact rationals; division by zero gives inf or nan as it does in a      *)
(* pandas Series.                                                          *)
(***************************************************************************)
EXTENDS Integers, Sequences, FiniteSets, TLC

\* Longest game log one season of the provider holds in the model.
MaxRows == 2

\* Largest num_games a caller asks for.
MaxNumGames == 2

\* The number of threads that call calculate_advanced_metrics concurrently.
MaxThreads == 3

\* The number of connections get_connection opens in a behaviour.
MaxConnections == 3

-----------------------------------------------------------------------------
(* Cells and float arithmetic *)

Abs(x) == IF x < 0 THEN -x ELSE x

Sign(x) == IF x < 0 THEN -1 ELSE IF x > 0 THEN 1 ELSE 0

RECURSIVE GCD(_, _)
GCD(a, b) == IF b = 0 THEN a ELSE GCD(b, a % b)

NaN == [k |-> "nan", n |-> 0, d |-> 1, s |-> <<>>]

Inf(sign) == [k |-> "inf", n |-> sign, d |-> 1, s |-> <<>>]

Str(s) == [k |-> "str", n |-> 0, d |-> 1, s |-> s]

\* The float n/d, d # 0, in lowest terms with a positive denominator.
Rat(n, d) ==
    LET g == GCD(Abs(n), Abs(d))
    IN  [k |-> "num", n |-> Sign(d) * (n \div g), d |-> Abs(d) \div g, s |-> <<>>]

Num(n) == Rat(n, 1)

IsFinite(v) == v.k = "num"

\* Series arithmetic on finite floats.  (The operands are bound through
\* singleton sets so that each is evaluated once.)
FAdd(x, y) ==
    CHOOSE r \in {Rat(a.n * b.d + b.n * a.d, a.d * b.d) : a \in {x}, b \in {y}} : TRUE

FSub(x, y) ==
    CHOOSE r \in {Rat(a.n * b.d - b.n * a.d, a.d * b.d) : a \in {x}, b \in {y}} : TRUE

FMul(x, y) ==
    CHOOSE r \in {Rat(a.n * b.n, a.d * b.d) : a \in {x}, b \in {y}} : TRUE

\* Series division: x/0 is +-inf, 0/0 is nan, no exception is raised.
FDiv(x, y) ==
    CHOOSE r \in {IF b.n = 0
                  THEN IF a.n = 0 THEN NaN ELSE Inf(Sign(a.n))
                  ELSE Rat(a.n * b.d, a.d * b.n) : a \in {x}, b \in {y}} : TRUE

\* Series > 0 (a comparison with nan is False).
GtZero(v) == v.k \in {"num", "inf"} /\ v.n > 0

\* numpy.where(cond, x, y), one element.
NpWhere(cond, x, y) == IF cond THEN x ELSE y

-----------------------------------------------------------------------------
(* Strings *)

Digits == <<"0", "1", "2", "3", "4", "5", "6", "7", "8", "9">>

IsDigit(c) == \E i \in 1..10 : Digits[i] = c

DigitVal(c) == (CHOOSE i \in 1..10 : Digits[i] = c) - 1

\* Code point order of the characters the model's strings are made of.
Alphabet ==
    <<" ", ",", "0", "1", "2", "3", "4", "5", "6", "7", "8", "9", ":",
      "A", "B", "C", "D", "E", "F", "G", "H", "I", "J", "K", "L", "M",
      "N", "O", "P", "Q", "R", "S", "T", "U", "V", "W", "X", "Y", "Z">>

Ord(c) == CHOOSE i \in 1..Len(Alphabet) : Alphabet[i] = c

\* Python's str < str: lexicographic by code point, a proper prefix is less.
RECURSIVE StrLess(_, _)
StrLess(a, b) ==
    IF b = <<>> THEN FALSE
    ELSE IF a = <<>> THEN TRUE
    ELSE IF Head(a) # Head(b) THEN Ord(Head(a)) < Ord(Head(b))
    ELSE StrLess(Tail(a), Tail(b))

RECURSIVE DigitsToInt(_, _)
DigitsToInt(s, acc) ==
    IF s = <<>> THEN acc ELSE DigitsToInt(Tail(s), 10 * acc + DigitVal(Head(s)))

IsDigitString(s) == s # <<>> /\ \A i \in 1..Len(s) : IsDigit(s[i])

Contains(s, c) == \E i \in 1..Len(s) : s[i] = c

\* s.split(c)[0] and s.split(c)[1] for a string that contains c.
FirstPos(s, c) == CHOOSE i \in 1..Len(s) : s[i] = c /\ \A j \in 1..(i - 1) : s[j] # c

SplitHead(s, c) == SubSeq(s, 1, FirstPos(s, c) - 1)

SplitSecond(s, c) ==
    LET rest == SubSeq(s, FirstPos(s, c) + 1, Len(s))
    IN  IF Contains(rest, c) THEN SplitHead(rest, c) ELSE rest

-----------------------------------------------------------------------------
(* DataFrames *)

ColSet(t) == {t.cols[i] : i \in 1..Len(t.cols)}

NumRows(t) == Len(t.rows)

\* df[c] = vals, one value per row: an existing column is overwritten in
\* place, a new one is appended after the existing columns.
AssignCol(t, c, vals) ==
    [cols  |-> IF c \in ColSet(t) THEN t.cols ELSE Append(t.cols, c),
     index |-> t.index,
     rows  |-> [i \in 1..Len(t.rows) |->
                  [x \in (DOMAIN t.rows[i]) \cup {c} |->
                      IF x = c THEN vals[i] ELSE t.rows[i][x]]]]

\* pd.to_numeric(value, errors='coerce'): a number stays, a string of digits
\* is parsed, every other string and every missing value becomes NaN.
ToNumeric(v) ==
    IF v.k = "str"
    THEN IF IsDigitString(v.s) THEN Num(DigitsToInt(v.s, 0)) ELSE NaN
    ELSE v

\* Line 154 left out: a missing value stays missing.
FillNaCellKeep(v) == v

\* DataFrame.fillna(0), one cell.
FillNaCell(v) == IF v.k = "nan" THEN Num(0) ELSE v

\* DataFrame.fillna(0): a new frame, every column is filled.
FillNa(t) ==
    [cols  |-> t.cols,
     index |-> t.index,
     rows  |-> [i \in 1..Len(t.rows) |->
                  [x \in DOMAIN t.rows[i] |-> FillNaCell(t.rows[i][x])]]]

\* The outcome of an expression that raised instead of giving a value.
Raised == [k |-> "raise", n |-> 0, d |-> 1, s |-> <<>>]

\* Python's float(x); a string that is no number raises ValueError.
PyFloat(v) ==
    IF v.k = "str"
    THEN IF IsDigitString(v.s) THEN Num(DigitsToInt(v.s, 0)) ELSE Raised
    ELSE v

\* The lambda applied to each MIN value (player_stats.py line 158).
MinutesLambda(x) ==
    IF x.k = "str" /\ Contains(x.s, ":")
    THEN LET mm == PyFloat(Str(SplitHead(x.s, ":")))
             ss == PyFloat(Str(SplitSecond(x.s, ":")))
         IN  IF mm.k = "raise" \/ ss.k = "raise"
             THEN Raised
             ELSE FAdd(mm, FDiv(ss, Num(60)))
    ELSE PyFloat(x)

numeric_cols ==
    <<"MIN", "FGM", "FGA", "FG3M", "FG3A", "FTM", "FTA", "OREB", "DREB",
      "REB", "AST", "STL", "BLK", "TOV", "PF", "PTS", "PLUS_MINUS">>

\* Lines 147-151: every numeric column that exists is coerced in place, a
\* column that does not exist is only logged.
CoerceColumn(t, col) ==
    IF col \in ColSet(t)
    THEN AssignCol(t, col, [j \in 1..NumRows(t) |-> ToNumeric(t.rows[j][col])])
    ELSE t

RECURSIVE CoerceNumeric(_, _)
CoerceNumeric(t, i) ==
    IF i > Len(numeric_cols) THEN t
    ELSE CHOOSE r \in {CoerceNumeric(u, i + 1) : u \in {CoerceColumn(t, numeric_cols[i])}} :
             TRUE

-----------------------------------------------------------------------------
(* calculate_advanced_metrics *)

\* One statement df[c] = <expression over the columns needs> of the try
\* block, vals being the values of the expression: st is [exc, df]; reading a
\* column that does not exist raises KeyError, which leaves the try block;
\* after that nothing more is executed.
TryAssign(st, needs, c, vals) ==
    IF st.exc THEN st
    ELSE IF ~(needs \subseteq ColSet(st.df)) THEN [exc |-> TRUE, df |-> st.df]
    ELSE [exc |-> FALSE, df |-> AssignCol(st.df, c, vals)]

\* Lines 157-159: df['MINUTES_PLAYED'] = df['MIN'].apply(lambda ...); a value
\* the lambda cannot convert raises ValueError.
MinutesPlayedStep(st) ==
    IF st.exc THEN st
    ELSE IF "MIN" \notin ColSet(st.df) THEN [exc |-> TRUE, df |-> st.df]
    ELSE IF \E i \in 1..NumRows(st.df) : MinutesLambda(st.df.rows[i]["MIN"]).k = "raise"
         THEN [exc |-> TRUE, df |-> st.df]
         ELSE [exc |-> FALSE,
               df  |-> AssignCol(st.df, "MINUTES_PLAYED",
                                [i \in 1..NumRows(st.df) |->
                                    MinutesLambda(st.df.rows[i]["MIN"])])]

\* Line 162 without np.where: the bare division.
FgPctUnguarded(r) == FDiv(r["FGM"], r["FGA"])

\* Line 162.
FgPct(r) == NpWhere(GtZero(r["FGA"]), FDiv(r["FGM"], r["FGA"]), Num(0))

\* Lines 166-170.
TsDenominator(r) == FAdd(r["FGA"], FMul(Rat(44, 100), r["FTA"]))

TsPct(r) ==
    NpWhere(GtZero(TsDenominator(r)),
            FDiv(r["PTS"], FMul(Num(2), TsDenominator(r))),
            Num(0))

\* Line 173.
PtsPerMin(r) ==
    NpWhere(GtZero(r["MINUTES_PLAYED"]), FDiv(r["PTS"], r["MINUTES_PLAYED"]), Num(0))

\* Line 182.
Poss(r) ==
    FAdd(FAdd(FSub(r["FGA"], r["OREB"]), r["TOV"]), FMul(Rat(44, 100), r["FTA"]))

\* Line 185.
OffRating(r) ==
    NpWhere(GtZero(r["POSS"]),
            FDiv(FMul(Num(100), FAdd(r["PTS"], FMul(Rat(15, 10), r["AST"]))), r["POSS"]),
            Num(0))

\* Lines 189-193.
DefRating(r) ==
    NpWhere(GtZero(r["MINUTES_PLAYED"]),
            FSub(Num(100),
                 FDiv(FSub(FSub(FMul(Num(5), FAdd(r["STL"], r["BLK"])), r["PF"]),
                           r["PLUS_MINUS"]),
                      r["MINUTES_PLAYED"])),
            Num(0))

\* Lines 197-201 with the fouls added in place of subtracted.
GameScoreFoulsAdded(r) ==
    LET t1  == FAdd(r["PTS"], FMul(Rat(4, 10), r["FGM"]))
        t2  == FSub(t1, FMul(Rat(7, 10), r["FGA"]))
        t3  == FSub(t2, FMul(Rat(4, 10), FSub(r["FTA"], r["FTM"])))
        t4  == FAdd(t3, FMul(Rat(7, 10), r["OREB"]))
        t5  == FAdd(t4, FMul(Rat(3, 10), r["DREB"]))
        t6  == FAdd(t5, r["STL"])
        t7  == FAdd(t6, FMul(Rat(7, 10), r["AST"]))
        t8  == FAdd(t7, FMul(Rat(7, 10), r["BLK"]))
        t9  == FAdd(t8, FMul(Rat(4, 10), r["PF"]))
    IN  FSub(t9, r["TOV"])

\* Lines 197-201, the terms added left to right.
GameScore(r) ==
    LET t1  == FAdd(r["PTS"], FMul(Rat(4, 10), r["FGM"]))
        t2  == FSub(t1, FMul(Rat(7, 10), r["FGA"]))
        t3  == FSub(t2, FMul(Rat(4, 10), FSub(r["FTA"], r["FTM"])))
        t4  == FAdd(t3, FMul(Rat(7, 10), r["OREB"]))
        t5  == FAdd(t4, FMul(Rat(3, 10), r["DREB"]))
        t6  == FAdd(t5, r["STL"])
        t7  == FAdd(t6, FMul(Rat(7, 10), r["AST"]))
        t8  == FAdd(t7, FMul(Rat(7, 10), r["BLK"]))
        t9  == FSub(t8, FMul(Rat(4, 10), r["PF"]))
    IN  FSub(t9, r["TOV"])

\* Line 206: the division is not guarded.
UsgRate(r) ==
    FDiv(FMul(Num(100),
              FAdd(FAdd(r["FGA"], FMul(Rat(44, 100), r["FTA"])), r["TOV"])),
         r["POSS"])

\* Line 211 with 0 as the fallback, as in the other ratios.
AstToRatioZero(r) == NpWhere(GtZero(r["TOV"]), FDiv(r["AST"], r["TOV"]), Num(0))

\* Line 211.
AstToRatio(r) == NpWhere(GtZero(r["TOV"]), FDiv(r["AST"], r["TOV"]), r["AST"])

\* The columns lines 157-211 add, one per statement.
DerivedColumnNames ==
    {"MINUTES_PLAYED", "FG_PCT", "TS_PCT", "PTS_PER_MIN", "POSS", "OFF_RATING",
     "DEF_RATING", "GAME_SCORE", "USG_RATE", "AST_TO_RATIO"}

\* The i-th statement of lines 157-211, on st = [exc, df].
Statement(st, i) ==
    CASE i = 1 -> MinutesPlayedStep(st)
      [] i = 2 -> TryAssign(st, {"FGA", "FGM"}, "FG_PCT",
                            [j \in 1..NumRows(st.df) |-> FgPct(st.df.rows[j])])
      [] i = 3 -> TryAssign(st, {"FGA", "FTA", "PTS"}, "TS_PCT",
                            [j \in 1..NumRows(st.df) |-> TsPct(st.df.rows[j])])
      [] i = 4 -> TryAssign(st, {"MINUTES_PLAYED", "PTS"}, "PTS_PER_MIN",
                            [j \in 1..NumRows(st.df) |-> PtsPerMin(st.df.rows[j])])
      [] i = 5 -> TryAssign(st, {"FGA", "OREB", "TOV", "FTA"}, "POSS",
                            [j \in 1..NumRows(st.df) |-> Poss(st.df.rows[j])])
      [] i = 6 -> TryAssign(st, {"POSS", "PTS", "AST"}, "OFF_RATING",
                            [j \in 1..NumRows(st.df) |-> OffRating(st.df.rows[j])])
      [] i = 7 -> TryAssign(st, {"MINUTES_PLAYED", "STL", "BLK", "PF", "PLUS_MINUS"},
                            "DEF_RATING",
                            [j \in 1..NumRows(st.df) |-> DefRating(st.df.rows[j])])
      [] i = 8 -> TryAssign(st, {"PTS", "FGM", "FGA", "FTA", "FTM", "OREB", "DREB",
                                 "STL", "AST", "BLK", "PF", "TOV"},
                            "GAME_SCORE",
                            [j \in 1..NumRows(st.df) |-> GameScore(st.df.rows[j])])
      [] i = 9 -> TryAssign(st, {"FGA", "FTA", "TOV", "POSS"}, "USG_RATE",
                            [j \in 1..NumRows(st.df) |-> UsgRate(st.df.rows[j])])
      [] OTHER -> TryAssign(st, {"TOV", "AST"}, "AST_TO_RATIO",
                            [j \in 1..NumRows(st.df) |-> AstToRatio(st.df.rows[j])])

\* The statements i, i+1, ... of lines 157-211, one after the other.
RECURSIVE RunStatements(_, _)
RunStatements(st, i) ==
    IF i > Cardinality(DerivedColumnNames) THEN st
    ELSE CHOOSE r \in {RunStatements(s, i + 1) : s \in {Statement(st, i)}} : TRUE

\* Lines 157-211 on the zero-filled frame: [exc, df] after the last
\* statement that was executed.
DeriveColumns(filled) == RunStatements([exc |-> FALSE, df |-> filled], 1)

\* df = game_logs in place of line 139: no copy, the same object.
CopyFrameAlias(h, ref) == [heap |-> h, ref |-> ref]

\* Line 139, game_logs.copy(): a new object with the same contents.
CopyFrame(h, ref) == [heap |-> Append(h, h[ref]), ref |-> Len(h) + 1]

\* return df in place of line 217: the half-processed copy on failure.
ReturnValueDf(exc, game_logs, df) == df

\* Lines 213 and 215-217: what the call returns, df after the last statement
\* or, when the try block raised, the object the caller passed.
ReturnValue(exc, game_logs, df) == IF exc THEN game_logs ELSE df

\* Lines 139-151: the copy is made and lines 147-151 write the coerced
\* columns into the object df names.
CopyAndCoerce(h, game_logs) ==
    CHOOSE r \in {[heap |-> [cp.heap EXCEPT ![cp.ref] = CoerceNumeric(cp.heap[cp.ref], 1)],
                   ref  |-> cp.ref] : cp \in {CopyFrame(h, game_logs)}} : TRUE

\* Lines 154-217 with df kept in an attribute of the collector in place of a
\* local variable: the statements work on the frame coerced last.
FillAndDeriveShared(c, game_logs) ==
    CHOOSE r \in {[heap   |-> Append(c.heap, st.df),
                   ret    |-> ReturnValue(st.exc, game_logs, Len(c.heap) + 1),
                   failed |-> st.exc] :
                  st \in {DeriveColumns(FillNa(c.heap[
                      CHOOSE m \in 1..Len(c.heap) :
                          /\ "MINUTES_PLAYED" \notin ColSet(c.heap[m])
                          /\ \A n \in (m + 1)..Len(c.heap) :
                                "MINUTES_PLAYED" \in ColSet(c.heap[n])]))}} : TRUE

\* Lines 154-217 with df naming the coerced frame c.ref: line 154 rebinds df
\* to a new object, which the statements that follow write to.
FillAndDerive(c, game_logs) ==
    CHOOSE r \in {[heap   |-> Append(c.heap, st.df),
                   ret    |-> ReturnValue(st.exc, game_logs, Len(c.heap) + 1),
                   failed |-> st.exc] : st \in {DeriveColumns(FillNa(c.heap[c.ref]))}} : TRUE

\* calculate_advanced_metrics(game_logs) on heap h: the heap afterwards, the
\* reference returned, and whether the try block raised.
calculate_advanced_metrics(h, game_logs) ==
    CHOOSE r \in {FillAndDerive(c, game_logs) : c \in {CopyAndCoerce(h, game_logs)}} : TRUE

-----------------------------------------------------------------------------
(* get_recent_game_logs *)

\* None, where a reference is expected.
None == 0

Min(a, b) == IF a < b THEN a ELSE b

Max(a, b) == IF a > b THEN a ELSE b

\* Line 116 left out: the log is not cut to num_games.
DfHeadAll(t, n) == t

\* DataFrame.head(n): the first n rows, or all but the last -n when n < 0.
DfHead(t, n) ==
    LET m == IF n >= 0 THEN Min(n, NumRows(t)) ELSE Max(NumRows(t) + n, 0)
    IN  [cols |-> t.cols, index |-> SubSeq(t.index, 1, m), rows |-> SubSeq(t.rows, 1, m)]

\* The columns of b that a does not have, in b's order.
RECURSIVE ExtraCols(_, _)
ExtraCols(bcols, acolset) ==
    IF bcols = <<>> THEN <<>>
    ELSE IF Head(bcols) \in acolset THEN ExtraCols(Tail(bcols), acolset)
    ELSE <<Head(bcols)>> \o ExtraCols(Tail(bcols), acolset)

\* pd.concat([a, b]): the rows of a then the rows of b, each keeping its index
\* label; the columns are the union, a cell of a column a frame lacks is NaN.
DfConcat(a, b) ==
    LET cols == a.cols \o ExtraCols(b.cols, ColSet(a))
        cs   == {cols[i] : i \in 1..Len(cols)}
        Widen(r) == [x \in cs |-> IF x \in DOMAIN r THEN r[x] ELSE NaN]
    IN  [cols  |-> cols,
         index |-> a.index \o b.index,
         rows  |-> [i \in 1..Len(a.rows) |-> Widen(a.rows[i])]
                   \o [i \in 1..Len(b.rows) |-> Widen(b.rows[i])]]

\* Lines 118-120 left out: an empty log is returned as it is.
NoneIfEmptyKeepsFrame(t, ref) == ref

\* Lines 118-122: an empty log is reported as None.
NoneIfEmpty(t, ref) == IF NumRows(t) = 0 THEN None ELSE ref

\* get_recent_game_logs(player_name, num_games) against provider prov, on heap
\* h.  found: the directory knows player_name.  error: which request of the
\* provider raises ("none", "current", "previous").
get_recent_game_logs(prov, h, found, error, num_games) ==
    IF ~found
    THEN [heap |-> h, ret |-> None, prev_requested |-> FALSE]      \* lines 81-83
    ELSE IF error = "current"
    THEN [heap |-> h, ret |-> None, prev_requested |-> FALSE]      \* lines 124-126
    ELSE LET short == NumRows(prov.current) < num_games            \* line 104
         IN  IF short /\ error = "previous"
             THEN [heap |-> h, ret |-> None, prev_requested |-> TRUE]
             ELSE LET df  == IF short THEN DfConcat(prov.current, prov.previous)
                                      ELSE prov.current
                      hd  == DfHead(df, num_games)                 \* line 116
                      h1  == Append(h, hd)
                  IN  [heap |-> h1, ret |-> NoneIfEmpty(hd, Len(h1)),
                       prev_requested |-> short]

-----------------------------------------------------------------------------
(* get_player_stats: projection and sort *)

ts_columns ==
    <<"GAME_DATE", "GAME_ID", "FG_PCT", "TS_PCT", "PTS_PER_MIN", "PLUS_MINUS",
      "OFF_RATING", "DEF_RATING", "GAME_SCORE", "USG_RATE", "MINUTES_PLAYED",
      "AST_TO_RATIO">>

\* Line 253: [col for col in ts_columns if col in player_stats.columns].
RECURSIVE AvailableColumns(_, _)
AvailableColumns(wanted, colset) ==
    IF wanted = <<>> THEN <<>>
    ELSE IF Head(wanted) \in colset
         THEN <<Head(wanted)>> \o AvailableColumns(Tail(wanted), colset)
         ELSE AvailableColumns(Tail(wanted), colset)

\* player_stats[available_columns]: a new frame with these columns, in this
\* order.
DfSelect(t, cols) ==
    [cols  |-> cols,
     index |-> t.index,
     rows  |-> [i \in 1..Len(t.rows) |->
                  [x \in {cols[j] : j \in 1..Len(cols)} |-> t.rows[i][x]]]]

\* a < b for two sort keys of the same kind.
KeyLess(a, b) ==
    IF a.k = "str" THEN StrLess(a.s, b.s) ELSE a.n * b.d < b.n * a.d

\* The keys can be ordered: missing keys aside, they are all strings or all
\* numbers (str < float raises TypeError).
KeysComparable(keys) ==
    \A i, j \in 1..Len(keys) :
        (keys[i].k # "nan" /\ keys[j].k # "nan") =>
            (keys[i].k = "str") = (keys[j].k = "str")

\* sort_values(by, ascending=False) with the default kind='quicksort', which
\* is not a stable sort: every order of the rows in which the keys do not
\* increase, missing keys last, is a possible result.
DescendingOrders(keys) ==
    {p \in Permutations(1..Len(keys)) :
        \A i, j \in 1..Len(keys) :
            i < j => /\ ~(keys[p[i]].k = "nan" /\ keys[p[j]].k # "nan")
                     /\ (keys[p[i]].k # "nan" /\ keys[p[j]].k # "nan")
                            => ~KeyLess(keys[p[i]], keys[p[j]])}

\* The rows in the order p without the last one.
DfTakeDropLast(t, p) ==
    [cols  |-> t.cols,
     index |-> [i \in 1..(Len(p) - 1) |-> t.index[p[i]]],
     rows  |-> [i \in 1..(Len(p) - 1) |-> t.rows[p[i]]]]

\* The frame with its rows in the order p.
DfTake(t, p) ==
    [cols  |-> t.cols,
     index |-> [i \in 1..Len(p) |-> t.index[p[i]]],
     rows  |-> [i \in 1..Len(p) |-> t.rows[p[i]]]]

-----------------------------------------------------------------------------
(* The game logs the model draws its inputs from *)

\* Longest game log of the previous season.
MaxPrevRows == 1

\* GAME_DATE as the stats provider writes it: "MMM DD, YYYY".
DateOct25 == <<"O", "C", "T", " ", "2", "5", ",", " ", "2", "0", "2", "3">>

DateJan05 == <<"J", "A", "N", " ", "0", "5", ",", " ", "2", "0", "2", "4">>

DateApr14 == <<"A", "P", "R", " ", "1", "4", ",", " ", "2", "0", "2", "4">>

DateMar03 == <<"M", "A", "R", " ", "0", "3", ",", " ", "2", "0", "2", "3">>

RawColumns == <<"GAME_ID", "GAME_DATE">> \o numeric_cols

\* One raw record: st gives the numeric columns in the order of numeric_cols.
RawRow(id, date, st) ==
    [x \in ColSet([cols |-> RawColumns]) |->
        IF x = "GAME_ID" THEN Str(id)
        ELSE IF x = "GAME_DATE" THEN Str(date)
        ELSE st[CHOOSE i \in 1..Len(numeric_cols) : numeric_cols[i] = x]]

\* 32 minutes, 10 of 20 from the field, 4 of 5 free throws, 25 points.
RowFull ==
    RawRow(<<"0", "0", "1">>, DateOct25,
           <<Num(32), Num(10), Num(20), Num(1), Num(4), Num(4), Num(5), Num(2), Num(6),
             Num(8), Num(5), Num(1), Num(1), Num(2), Num(3), Num(25), Num(7)>>)

\* Did not play: every counting stat is 0.
RowZero ==
    RawRow(<<"0", "0", "2">>, DateApr14,
           <<Num(0), Num(0), Num(0), Num(0), Num(0), Num(0), Num(0), Num(0), Num(0),
             Num(0), Num(0), Num(0), Num(0), Num(0), Num(0), Num(0), Num(0)>>)

\* MIN as "32:30"; one shot made after an offensive rebound, no turnover.
RowClock ==
    RawRow(<<"0", "0", "3">>, DateJan05,
           <<Str(<<"3", "2", ":", "3", "0">>), Num(1), Num(1), Num(0), Num(0), Num(0),
             Num(0), Num(1), Num(3), Num(4), Num(5), Num(2), Num(0), Num(0), Num(1),
             Num(2), Num(-4)>>)

\* A second game on the date of RowFull, with a missing FGA, PTS that is no
\* number and AST given as text.
RowDirty ==
    RawRow(<<"0", "0", "4">>, DateOct25,
           <<Num(15), Num(2), NaN, Num(0), Num(1), Num(1), Num(2), Num(3), Num(1),
             Num(4), Str(<<"1", "2">>), Num(0), Num(1), Num(1), Num(2),
             Str(<<"D", "N", "P">>), Num(-2)>>)

\* A game of the previous season.
RowPrev ==
    RawRow(<<"0", "0", "9">>, DateMar03,
           <<Num(20), Num(4), Num(9), Num(1), Num(3), Num(2), Num(2), Num(1), Num(3),
             Num(4), Num(2), Num(1), Num(0), Num(1), Num(2), Num(11), Num(3)>>)

SampleRows == {RowFull, RowZero, RowClock, RowDirty}

PrevSampleRows == {RowPrev}

\* The sets of columns a game log may lack altogether.
AbsentCases == {{}, {"PF"}, {"MIN"}, {"REB"}, {"GAME_ID"}, {"GAME_DATE"}}

RECURSIVE DropCols(_, _)
DropCols(cols, absent) ==
    IF cols = <<>> THEN <<>>
    ELSE IF Head(cols) \in absent THEN DropCols(Tail(cols), absent)
    ELSE <<Head(cols)>> \o DropCols(Tail(cols), absent)

\* The game log with the records rs, without the columns absent; the index
\* labels are 0, 1, ...
GameLog(rs, absent) ==
    [cols  |-> DropCols(RawColumns, absent),
     index |-> [i \in 1..Len(rs) |-> i - 1],
     rows  |-> [i \in 1..Len(rs) |->
                  [x \in (DOMAIN rs[i]) \ absent |-> rs[i][x]]]]

SeqsUpTo(S, n) == UNION {[1..m -> S] : m \in 0..n}

\* num_games as a caller may pass it.
NumGamesRange == (-1)..MaxNumGames

-----------------------------------------------------------------------------
(* Database: the tables and get_connection *)

\* NULL in a text column, None for a text value.
Null == "NULL"

\* The database file after initialize_database: the tables are empty.  conns
\* holds every connection get_connection has opened, "open" or "closed";
\* seq is the AUTOINCREMENT counter of reddit_posts (sqlite_sequence); a
\* post_id of 0 stands for no value, as does a comment_id of 0.
EmptyDatabase ==
    [games |-> {}, reddit_posts |-> {}, seq |-> 0, conns |-> <<>>,
     reddit_comments |-> {}, sentiment_analysis |-> {}]

\* The methods class Database defines.
DatabaseMethods ==
    {"get_connection", "connect", "disconnect", "initialize_database",
     "insert_game", "update_game", "get_game", "get_upcoming_games",
     "insert_player", "update_player_status", "get_players_by_team",
     "insert_reddit_post", "insert_reddit_comment", "get_reddit_posts_by_team",
     "insert_sentiment_analysis", "get_team_sentiment", "insert_prediction",
     "get_latest_prediction", "update_prediction_results"}

\* The exceptions that derive from sqlite3.Error.
SqliteErrors == {"IntegrityError", "OperationalError"}

\* Lines 45-51: get_connection up to its yield.
OpenConnection(d) == [d EXCEPT !.conns = Append(@, "open")]

\* get_connection without its finally clause: the connection is closed only
\* when the with-block ends without an exception.
LeaveBlockNoFinally(d, conn, exc) ==
    IF exc = "none" THEN [d EXCEPT !.conns[conn] = "closed"] ELSE d

\* Lines 52-59: the with-block is left, with exception exc or with "none".
\* The rollback of line 55 finds nothing to undo: every statement of the
\* methods below either raised before it changed a table or was committed.
\* The finally clause closes the connection whatever exc is.
LeaveBlock(d, conn, exc) == [d EXCEPT !.conns[conn] = "closed"]

\* The value of column c in the dictionary data, NULL if the key is absent.
Col(data, c) == IF c \in DOMAIN data THEN data[c] ELSE Null

\* Lines 199-203.
RequiredGameFields == {"game_id", "home_team", "away_team", "game_date", "game_time"}

\* insert_game(game_data) on database d: a plain INSERT, so a second row
\* with the primary key game_id or a NULL in a NOT NULL column raises
\* IntegrityError.
insert_game(d, game_data) ==
    IF ~(RequiredGameFields \subseteq DOMAIN game_data)
    THEN [db |-> d, raised |-> "ValueError", ret |-> Null, conn |-> 0]
    ELSE LET c    == OpenConnection(d)
             conn == Len(c.conns)
             bad  == \/ \E g \in c.games : g.game_id = game_data["game_id"]
                     \/ \E f \in RequiredGameFields \ {"game_id"} : game_data[f] = Null
         IN  IF bad
             THEN [db |-> LeaveBlock(c, conn, "IntegrityError"),
                   raised |-> "IntegrityError", ret |-> Null, conn |-> conn]
             ELSE [db |-> LeaveBlock([c EXCEPT !.games = @ \cup
                                         {[game_id   |-> game_data["game_id"],
                                           home_team |-> game_data["home_team"],
                                           away_team |-> game_data["away_team"]]}],
                                     conn, "none"),
                   raised |-> "none", ret |-> game_data["game_id"], conn |-> conn]

\* get_game(game_id) on database d; ret is <<>> for None and <<row>> for a
\* row.
get_game(d, game_id) ==
    LET c    == OpenConnection(d)
        conn == Len(c.conns)
        rows == {g \in c.games : g.game_id = game_id}
    IN  [db |-> LeaveBlock(c, conn, "none"), raised |-> "none",
         ret |-> IF rows = {} THEN <<>> ELSE <<CHOOSE g \in rows : TRUE>>,
         conn |-> conn]

\* Lines 401-405.
RequiredPostFields == {"reddit_id", "subreddit", "title", "created_utc"}

\* The row of reddit_posts that post_data describes; post_id 0 if it gives
\* none.  created_at, the time of the call, is left out.
PostRow(post_data) ==
    [post_id   |-> IF "post_id" \in DOMAIN post_data THEN post_data["post_id"] ELSE 0,
     reddit_id |-> post_data["reddit_id"],
     subreddit |-> post_data["subreddit"],
     title     |-> post_data["title"],
     game_id   |-> Col(post_data, "game_id")]

\* The post_id AUTOINCREMENT gives the next row: one more than the largest
\* ever used.
NextPostId(d) ==
    LET used == {d.seq} \cup {p.post_id : p \in d.reddit_posts}
    IN  1 + CHOOSE m \in used : \A n \in used : n <= m

\* A NULL in a NOT NULL column of reddit_posts.
PostNullViolation(row) ==
    row.reddit_id = Null \/ row.subreddit = Null \/ row.title = Null

\* The rows that a UNIQUE or PRIMARY KEY constraint sets against row.
PostConflicts(d, row) ==
    {p \in d.reddit_posts :
        p.reddit_id = row.reddit_id \/ (row.post_id # 0 /\ p.post_id = row.post_id)}

\* The FOREIGN KEY of reddit_posts, with PRAGMA foreign_keys = ON.
PostForeignKeyViolation(d, row) ==
    row.game_id # Null /\ ~\E g \in d.games : g.game_id = row.game_id

\* The row as it is stored: with its own post_id or the next one.
StoredPost(d, row) ==
    [row EXCEPT !.post_id = IF row.post_id # 0 THEN row.post_id ELSE NextPostId(d)]

\* INSERT OR REPLACE in place of line 415: the rows in the way are deleted
\* and the new row is stored.
InsertOrReplace(d, row) ==
    IF PostNullViolation(row) \/ PostForeignKeyViolation(d, row)
    THEN [db |-> d, exc |-> "IntegrityError"]
    ELSE LET kept == [d EXCEPT !.reddit_posts = @ \ PostConflicts(d, row)]
             new  == StoredPost(kept, row)
         IN  [db |-> [kept EXCEPT !.reddit_posts = @ \cup {new},
                                  !.seq = IF new.post_id > @ THEN new.post_id ELSE @],
              exc |-> "none"]

\* Lines 415-417, INSERT OR IGNORE and commit: a row that breaks a NOT NULL,
\* UNIQUE or PRIMARY KEY constraint is skipped without an error; a foreign
\* key that matches no game raises IntegrityError.
InsertOrIgnore(d, row) ==
    IF PostNullViolation(row) \/ PostConflicts(d, row) # {}
    THEN [db |-> d, exc |-> "none"]
    ELSE IF PostForeignKeyViolation(d, row)
    THEN [db |-> d, exc |-> "IntegrityError"]
    ELSE LET new == StoredPost(d, row)
         IN  [db |-> [d EXCEPT !.reddit_posts = @ \cup {new},
                               !.seq = IF new.post_id > @ THEN new.post_id ELSE @],
              exc |-> "none"]

\* insert_reddit_post(post_data) on database d.  Lines 420-421: the post_id
\* is read back by reddit_id; fetchone() is None when no row has it, and
\* None['post_id'] raises TypeError.
insert_reddit_post(d, post_data) ==
    IF ~(RequiredPostFields \subseteq DOMAIN post_data)
    THEN [db |-> d, raised |-> "ValueError", ret |-> 0, conn |-> 0]
    ELSE LET c    == OpenConnection(d)
             conn == Len(c.conns)
             ins  == InsertOrIgnore(c, PostRow(post_data))
             rows == {p \in ins.db.reddit_posts : p.reddit_id = post_data["reddit_id"]}
         IN  IF ins.exc # "none"
             THEN [db |-> LeaveBlock(ins.db, conn, ins.exc),
                   raised |-> ins.exc, ret |-> 0, conn |-> conn]
             ELSE IF rows = {}
             THEN [db |-> LeaveBlock(ins.db, conn, "TypeError"),
                   raised |-> "TypeError", ret |-> 0, conn |-> conn]
             ELSE [db |-> LeaveBlock(ins.db, conn, "none"),
                   raised |-> "none", ret |-> (CHOOSE p \in rows : TRUE).post_id,
                   conn |-> conn]

\* get_game_players_stats(game_id) of a collector whose db is a Database
\* (has_db) or None.  ret is the dictionary returned, <<>> for {}.  Line 320
\* looks up get_players_for_game on the Database; the AttributeError of a
\* missing method is caught at line 332.  The statistics of a team are not
\* modelled further than by the name of its team.
get_game_players_stats(d, has_db, game_id) ==
    IF ~has_db
    THEN [db |-> d, ret |-> <<>>, conn |-> 0]                       \* lines 306-308
    ELSE LET game == get_game(d, game_id)
         IN  IF game.ret = <<>>
             THEN [db |-> game.db, ret |-> <<>>, conn |-> game.conn]     \* lines 315-317
             ELSE IF "get_players_for_game" \notin DatabaseMethods
             THEN [db |-> game.db, ret |-> <<>>, conn |-> game.conn]     \* lines 332-334
             ELSE [db |-> game.db,
                   ret |-> [team \in {game.ret[1].home_team, game.ret[1].away_team}
                               |-> <<"stats", team>>],
                   conn |-> game.conn]

\* One more than the largest of ids, 1 if there is none: the key
\* AUTOINCREMENT gives the next row of a table no row is deleted from.
NextRowId(ids) == 1 + CHOOSE m \in ids \cup {0} : \A n \in ids \cup {0} : n <= m

\* The value of integer column c in the dictionary data, 0 for None and for
\* an absent key.
IntCol(data, c) == IF c \in DOMAIN data THEN data[c] ELSE 0

\* Lines 441-445.
RequiredCommentFields == {"reddit_id", "post_id", "content", "created_utc"}

\* insert_reddit_comment(comment_data) on database d: INSERT OR IGNORE, then
\* the comment_id is read back by reddit_id (lines 457-463).
insert_reddit_comment(d, comment_data) ==
    IF ~(RequiredCommentFields \subseteq DOMAIN comment_data)
    THEN [db |-> d, raised |-> "ValueError", ret |-> 0, conn |-> 0]
    ELSE LET c       == OpenConnection(d)
             conn    == Len(c.conns)
             skipped == \/ comment_data["post_id"] = 0
                        \/ comment_data["content"] = Null
                        \/ \E k \in c.reddit_comments :
                               k.reddit_id = comment_data["reddit_id"]
             orphan  == ~\E p \in c.reddit_posts : p.post_id = comment_data["post_id"]
             new     == [comment_id |-> NextRowId({k.comment_id : k \in c.reddit_comments}),
                         reddit_id  |-> comment_data["reddit_id"],
                         post_id    |-> comment_data["post_id"],
                         content    |-> comment_data["content"]]
             after   == IF skipped THEN c
                        ELSE [c EXCEPT !.reddit_comments = @ \cup {new}]
             rows    == {k \in after.reddit_comments :
                            k.reddit_id = comment_data["reddit_id"]}
         IN  IF ~skipped /\ orphan
             THEN [db |-> LeaveBlock(c, conn, "IntegrityError"),
                   raised |-> "IntegrityError", ret |-> 0, conn |-> conn]
             ELSE IF rows = {}
             THEN [db |-> LeaveBlock(after, conn, "TypeError"),
                   raised |-> "TypeError", ret |-> 0, conn |-> conn]
             ELSE [db |-> LeaveBlock(after, conn, "none"),
                   raised |-> "none", ret |-> (CHOOSE k \in rows : TRUE).comment_id,
                   conn |-> conn]

\* Lines 505-509.
RequiredSentimentFields == {"entity_type", "entity_id", "sentiment_score"}

\* The row of sentiment_analysis that sentiment_data describes, without its
\* sentiment_id.  created_at, the time of the call, is left out.
SentimentRow(sentiment_data) ==
    [entity_type     |-> sentiment_data["entity_type"],
     entity_id       |-> sentiment_data["entity_id"],
     sentiment_score |-> sentiment_data["sentiment_score"],
     post_id         |-> IntCol(sentiment_data, "post_id"),
     comment_id      |-> IntCol(sentiment_data, "comment_id")]

\* The table made without the CHECK clause of line 164.
SentimentCheckLeftOut(row) == FALSE

\* Line 164: CHECK (post_id IS NOT NULL OR comment_id IS NOT NULL) fails.
SentimentCheckViolation(row) == row.post_id = 0 /\ row.comment_id = 0

\* A NULL in a NOT NULL column of sentiment_analysis (lines 155-159).
SentimentNullViolation(row) ==
    row.entity_type = Null \/ row.entity_id = Null \/ row.sentiment_score = Null

\* Lines 162-163: a post_id or comment_id that is given matches no row.
SentimentForeignKeyViolation(d, row) ==
    \/ row.post_id # 0 /\ ~\E p \in d.reddit_posts : p.post_id = row.post_id
    \/ row.comment_id # 0 /\ ~\E k \in d.reddit_comments : k.comment_id = row.comment_id

\* insert_sentiment_analysis(sentiment_data) on database d.  Lines 512-513
\* look for the keys only; the values are left to the plain INSERT of line
\* 525, which raises IntegrityError on any constraint that fails.
insert_sentiment_analysis(d, sentiment_data) ==
    IF ~(RequiredSentimentFields \subseteq DOMAIN sentiment_data)
    THEN [db |-> d, raised |-> "ValueError", ret |-> 0, conn |-> 0]
    ELSE IF "post_id" \notin DOMAIN sentiment_data
            /\ "comment_id" \notin DOMAIN sentiment_data
    THEN [db |-> d, raised |-> "ValueError", ret |-> 0, conn |-> 0]
    ELSE LET c    == OpenConnection(d)
             conn == Len(c.conns)
             row  == SentimentRow(sentiment_data)
             id   == NextRowId({x.sentiment_id : x \in c.sentiment_analysis})
         IN  IF \/ SentimentNullViolation(row)
                \/ SentimentCheckViolation(row)
                \/ SentimentForeignKeyViolation(c, row)
             THEN [db |-> LeaveBlock(c, conn, "IntegrityError"),
                   raised |-> "IntegrityError", ret |-> 0, conn |-> conn]
             ELSE [db |-> LeaveBlock([c EXCEPT !.sentiment_analysis = @ \cup
                                         {[sentiment_id    |-> id,
                                           entity_type     |-> row.entity_type,
                                           entity_id       |-> row.entity_id,
                                           sentiment_score |-> row.sentiment_score,
                                           post_id         |-> row.post_id,
                                           comment_id      |-> row.comment_id]}],
                                     conn, "none"),
                   raised |-> "none", ret |-> id, conn |-> conn]

-----------------------------------------------------------------------------
(* State *)

VARIABLES
    heap,       \* the DataFrame objects; a reference is a position
    provider,   \* the stats provider: the game logs of the two seasons
    call,       \* the call a caller has made, with what it got back
    tasks,      \* the derivation calls of concurrent threads, one per thread
    db,         \* the database file and the connections opened to it
    dbcall,     \* the last call that went to the database, with its outcome
    post_ids    \* <<reddit_id, post_id>> of every insert_reddit_post that returned

vars == <<heap, provider, call, tasks, db, dbcall, post_ids>>

\* No call has gone to the database yet.
NoDbCall ==
    [op |-> "none", arg |-> <<>>, has_db |-> FALSE, raised |-> "none",
     ret |-> <<>>, conn |-> 0, before |-> EmptyDatabase]

\* The threads that call calculate_advanced_metrics, numbered in the order
\* they start.
Threads == 1..MaxThreads

\* A thread that has not called yet.  pc is where the thread is in
\* calculate_advanced_metrics: "idle" before the call, "coerced" after line
\* 151, "done" after the return.  df is the local variable df.
IdleTask ==
    [pc |-> "idle", arg |-> None, before |-> <<>>, df |-> None,
     ret |-> None, failed |-> FALSE]

\* The frame the caller owns and passes to calculate_advanced_metrics.
CallerFrame == 1

NoCall ==
    [op |-> "none", num_games |-> 0, found |-> FALSE, error |-> "none",
     prev_requested |-> FALSE,
     arg |-> None, before |-> <<>>, failed |-> FALSE, stats |-> None,
     ret |-> None, raised |-> "none"]

Init ==
    \E absent \in AbsentCases :
    \E rs \in SeqsUpTo(SampleRows, MaxRows) :
    \E ps \in SeqsUpTo(PrevSampleRows, MaxPrevRows) :
        /\ provider = [current |-> GameLog(rs, absent), previous |-> GameLog(ps, absent)]
        /\ heap = <<GameLog(rs, absent)>>
        /\ call = NoCall
        /\ tasks = [t \in Threads |-> IdleTask]
        /\ db = EmptyDatabase
        /\ dbcall = NoDbCall
        /\ post_ids = {}

\* A caller calls calculate_advanced_metrics on its own frame.
CalculateAdvancedMetrics ==
    /\ call.op = "none"
    /\ \E cam \in {calculate_advanced_metrics(heap, CallerFrame)} :
           /\ heap' = cam.heap
           /\ call' = [NoCall EXCEPT !.op = "calculate_advanced_metrics",
                                     !.arg = CallerFrame,
                                     !.before = heap[CallerFrame],
                                     !.failed = cam.failed,
                                     !.stats = cam.ret,
                                     !.ret = cam.ret]
    /\ UNCHANGED <<provider, tasks, db, dbcall, post_ids>>

\* A caller calls get_recent_game_logs(player_name, num_games).
GetRecentGameLogs ==
    /\ call.op = "none"
    /\ \E found \in BOOLEAN, error \in {"none", "current", "previous"},
          num_games \in NumGamesRange :
         \E grl \in {get_recent_game_logs(provider, heap, found, error, num_games)} :
             /\ heap' = grl.heap
             /\ call' = [NoCall EXCEPT !.op = "get_recent_game_logs",
                                       !.num_games = num_games,
                                       !.found = found,
                                       !.error = error,
                                       !.prev_requested = grl.prev_requested,
                                       !.ret = grl.ret]
    /\ UNCHANGED <<provider, tasks, db, dbcall, post_ids>>

\* Lines 242-259 on the frame player_stats: the heap afterwards and either
\* the reference returned or the exception that left get_player_stats.
\* p is the order the sort puts the rows in.
ProjectAndSort(h, player_stats, p) ==
    LET available_columns == AvailableColumns(ts_columns, ColSet(h[player_stats]))
        selected == DfSelect(h[player_stats], available_columns)
        h1       == Append(h, selected)
    IN  IF "GAME_DATE" \notin ColSet(selected)
        THEN [heap |-> h1, ret |-> None, raised |-> "KeyError"]
        ELSE IF ~KeysComparable([i \in 1..NumRows(selected) |-> selected.rows[i]["GAME_DATE"]])
        THEN [heap |-> h1, ret |-> None, raised |-> "TypeError"]
        ELSE [heap |-> Append(h1, DfTake(selected, p)), ret |-> Len(h1) + 1,
              raised |-> "none"]

\* The orders sort_values may put the rows of player_stats in.
SortOrders(t) ==
    IF "GAME_DATE" \in ColSet(t)
       /\ KeysComparable([i \in 1..NumRows(t) |-> t.rows[i]["GAME_DATE"]])
    THEN DescendingOrders([i \in 1..NumRows(t) |-> t.rows[i]["GAME_DATE"]])
    ELSE {<<>>}

\* A caller calls get_player_stats(player_name, num_games).
GetPlayerStats ==
    /\ call.op = "none"
    /\ \E found \in BOOLEAN, error \in {"none", "current", "previous"},
          num_games \in NumGamesRange :
         \E grl \in {get_recent_game_logs(provider, heap, found, error, num_games)} :
           IF grl.ret = None
           THEN /\ heap' = grl.heap                                 \* lines 235-237
                /\ call' = [NoCall EXCEPT !.op = "get_player_stats",
                                          !.num_games = num_games,
                                          !.found = found,
                                          !.error = error,
                                          !.prev_requested = grl.prev_requested]
           ELSE \E cam \in {calculate_advanced_metrics(grl.heap, grl.ret)} :
                \E p \in SortOrders(cam.heap[cam.ret]) :
                \E out \in {ProjectAndSort(cam.heap, cam.ret, p)} :
                    /\ heap' = out.heap
                    /\ call' = [NoCall EXCEPT !.op = "get_player_stats",
                                              !.num_games = num_games,
                                              !.found = found,
                                              !.error = error,
                                              !.prev_requested = grl.prev_requested,
                                              !.arg = grl.ret,
                                              !.before = grl.heap[grl.ret],
                                              !.failed = cam.failed,
                                              !.stats = cam.ret,
                                              !.ret = out.ret,
                                              !.raised = out.raised]
    /\ UNCHANGED <<provider, tasks, db, dbcall, post_ids>>

Next ==
    \/ CalculateAdvancedMetrics
    \/ GetRecentGameLogs
    \/ GetPlayerStats

Spec == Init /\ [][Next]_vars

-----------------------------------------------------------------------------
(* calculate_advanced_metrics called from several threads *)

\* Thread t takes its own copy of one of the provider's logs and calls
\* calculate_advanced_metrics on it; the thread runs up to line 151.
TaskBegin(t) ==
    /\ tasks[t].pc = "idle"
    /\ t > 1 => tasks[t - 1].pc # "idle"
    /\ \E season \in {"current", "previous"} :
       \E h \in {Append(heap, provider[season])} :
       \E c \in {CopyAndCoerce(h, Len(h))} :
           /\ heap' = c.heap
           /\ tasks' = [tasks EXCEPT ![t] =
                          [IdleTask EXCEPT !.pc = "coerced",
                                           !.arg = Len(h),
                                           !.before = provider[season],
                                           !.df = c.ref]]
    /\ UNCHANGED <<provider, call, db, dbcall, post_ids>>

\* Thread t runs lines 154-217 and returns.
TaskFinish(t) ==
    /\ tasks[t].pc = "coerced"
    /\ \E r \in {FillAndDerive([heap |-> heap, ref |-> tasks[t].df], tasks[t].arg)} :
           /\ heap' = r.heap
           /\ tasks' = [tasks EXCEPT ![t].pc = "done",
                                     ![t].ret = r.ret,
                                     ![t].failed = r.failed]
    /\ UNCHANGED <<provider, call, db, dbcall, post_ids>>

NextThreads ==
    \/ \E t \in Threads : TaskBegin(t)
    \/ \E t \in Threads : TaskFinish(t)

SpecThreads == Init /\ [][NextThreads]_vars

-----------------------------------------------------------------------------
(* The database and the collector that reads it *)

GameIds == {"g1", "g2"}

\* The dictionaries callers pass to insert_game: complete ones, one with
\* None for home_team, one without game_time.
GameData ==
    {[game_id |-> g, home_team |-> t[1], away_team |-> t[2],
      game_date |-> "2024-01-05", game_time |-> "19:30"] :
        g \in GameIds, t \in {<<"LAL", "BOS">>, <<"BOS", "LAL">>, <<Null, "LAL">>}}
      \cup {[game_id |-> "g1", home_team |-> "LAL", away_team |-> "BOS",
             game_date |-> "2024-01-05"]}

\* The dictionaries callers pass to insert_reddit_post: with and without a
\* game_id and a post_id of their own, one with None for title, one without
\* created_utc.
PostData ==
    {[reddit_id |-> r, subreddit |-> "nba", title |-> t, created_utc |-> "1704480000"] :
        r \in {"r1", "r2"}, t \in {"win", "loss", Null}}
      \cup {[reddit_id |-> r, subreddit |-> "nba", title |-> t,
              created_utc |-> "1704480000", game_id |-> g] :
                r \in {"r1", "r2"}, t \in {"win", "loss"}, g \in GameIds}
      \cup {[reddit_id |-> r, subreddit |-> "nba", title |-> "win",
              created_utc |-> "1704480000", post_id |-> 1] : r \in {"r1", "r2"}}
      \cup {[reddit_id |-> "r1", subreddit |-> "nba", title |-> "win"]}

\* The model opens at most MaxConnections connections.
CanConnect == Len(db.conns) < MaxConnections

\* A caller calls insert_game(game_data).
InsertGame ==
    /\ CanConnect
    /\ \E game_data \in GameData :
       \E r \in {insert_game(db, game_data)} :
           /\ db' = r.db
           /\ dbcall' = [NoDbCall EXCEPT !.op = "insert_game", !.arg = game_data,
                                         !.raised = r.raised, !.ret = r.ret,
                                         !.conn = r.conn, !.before = db]
    /\ UNCHANGED <<heap, provider, call, tasks, post_ids>>

\* A caller calls get_game(game_id).
GetGame ==
    /\ CanConnect
    /\ \E game_id \in GameIds :
       \E r \in {get_game(db, game_id)} :
           /\ db' = r.db
           /\ dbcall' = [NoDbCall EXCEPT !.op = "get_game", !.arg = game_id,
                                         !.raised = r.raised, !.ret = r.ret,
                                         !.conn = r.conn, !.before = db]
    /\ UNCHANGED <<heap, provider, call, tasks, post_ids>>

\* A caller calls insert_reddit_post(post_data).
InsertRedditPost ==
    /\ CanConnect
    /\ \E post_data \in PostData :
       \E r \in {insert_reddit_post(db, post_data)} :
           /\ db' = r.db
           /\ dbcall' = [NoDbCall EXCEPT !.op = "insert_reddit_post", !.arg = post_data,
                                         !.raised = r.raised, !.ret = r.ret,
                                         !.conn = r.conn, !.before = db]
           /\ post_ids' = IF r.raised = "none"
                           THEN post_ids \cup {<<post_data["reddit_id"], r.ret>>}
                           ELSE post_ids
    /\ UNCHANGED <<heap, provider, call, tasks>>

\* A caller calls get_game_players_stats(game_id) on a collector made with
\* the Database or with no db.
GetGamePlayersStats ==
    /\ CanConnect
    /\ \E has_db \in BOOLEAN, game_id \in GameIds :
       \E r \in {get_game_players_stats(db, has_db, game_id)} :
           /\ db' = r.db
           /\ dbcall' = [NoDbCall EXCEPT !.op = "get_game_players_stats",
                                         !.arg = game_id, !.has_db = has_db,
                                         !.ret = r.ret, !.conn = r.conn,
                                         !.before = db]
    /\ UNCHANGED <<heap, provider, call, tasks, post_ids>>

\* The dictionaries callers pass to insert_reddit_comment: on the first
\* post, on a second post, and one without content.
CommentData ==
    {[reddit_id |-> "c1", post_id |-> p, content |-> "agreed",
      created_utc |-> "1704480600"] : p \in {1, 2}}
      \cup {[reddit_id |-> "c1", post_id |-> 1, created_utc |-> "1704480600"]}

\* The dictionaries callers pass to insert_sentiment_analysis: with a
\* post_id, a comment_id, both or neither, each a value or None (0); one
\* with None for entity_type, one without sentiment_score.
SentimentData ==
    {[entity_type |-> "team", entity_id |-> "LAL", sentiment_score |-> "0.6"]}
      \cup {[entity_type |-> "team", entity_id |-> "LAL", sentiment_score |-> "0.6",
              post_id |-> p] : p \in {0, 1}}
      \cup {[entity_type |-> "team", entity_id |-> "LAL", sentiment_score |-> "0.6",
              comment_id |-> k] : k \in {0, 1}}
      \cup {[entity_type |-> "team", entity_id |-> "LAL", sentiment_score |-> "0.6",
              post_id |-> p, comment_id |-> k] : p \in {0, 1}, k \in {0, 1}}
      \cup {[entity_type |-> Null, entity_id |-> "LAL", sentiment_score |-> "0.6",
              post_id |-> 1]}
      \cup {[entity_type |-> "team", entity_id |-> "LAL", post_id |-> 1]}

\* A caller calls insert_reddit_comment(comment_data).
InsertRedditComment ==
    /\ CanConnect
    /\ \E comment_data \in CommentData :
       \E r \in {insert_reddit_comment(db, comment_data)} :
           /\ db' = r.db
           /\ dbcall' = [NoDbCall EXCEPT !.op = "insert_reddit_comment",
                                         !.arg = comment_data,
                                         !.raised = r.raised, !.ret = r.ret,
                                         !.conn = r.conn, !.before = db]
    /\ UNCHANGED <<heap, provider, call, tasks, post_ids>>

\* A caller calls insert_sentiment_analysis(sentiment_data).
InsertSentimentAnalysis ==
    /\ CanConnect
    /\ \E sentiment_data \in SentimentData :
       \E r \in {insert_sentiment_analysis(db, sentiment_data)} :
           /\ db' = r.db
           /\ dbcall' = [NoDbCall EXCEPT !.op = "insert_sentiment_analysis",
                                         !.arg = sentiment_data,
                                         !.raised = r.raised, !.ret = r.ret,
                                         !.conn = r.conn, !.before = db]
    /\ UNCHANGED <<heap, provider, call, tasks, post_ids>>

\* The collector and its database with an empty game log behind them.
InitDatabase ==
    /\ provider = [current |-> GameLog(<<>>, {}), previous |-> GameLog(<<>>, {})]
    /\ heap = <<GameLog(<<>>, {})>>
    /\ call = NoCall
    /\ tasks = [t \in Threads |-> IdleTask]
    /\ db = EmptyDatabase
    /\ dbcall = NoDbCall
    /\ post_ids = {}

NextDatabase ==
    \/ InsertGame
    \/ GetGame
    \/ InsertRedditPost
    \/ GetGamePlayersStats
    \/ InsertRedditComment
    \/ InsertSentimentAnalysis

SpecDatabase == InitDatabase /\ [][NextDatabase]_vars

-----------------------------------------------------------------------------
(* Properties of the derivation and projection *)

NumericColSet == {numeric_cols[i] : i \in 1..Len(numeric_cols)}

\* The call ran the derivation on a batch: the frame call.arg, whose contents
\* at the time of the call were call.before; call.stats is what the
\* derivation returned.
Derived == call.op \in {"calculate_advanced_metrics", "get_player_stats"} /\ call.arg # None

\* get_player_stats ran the derivation and the projection on a batch.
Projected == call.op = "get_player_stats" /\ call.arg # None

\* C1: for every input batch the derivation followed by the projection and
\* sort of get_player_stats returns a table to the caller and raises nothing.
C1_NeverRaises ==
    Projected => (call.raised = "none" /\ call.ret # None)

\* C2: for a batch that lacks the PF column and has every other base column,
\* calculate_advanced_metrics returns a frame in which every derived column is
\* present on every record, with the values that PF = 0 gives.
C2_MissingPfFullyEnriched ==
    (call.op = "calculate_advanced_metrics"
       /\ ColSet(call.before) = ColSet([cols |-> RawColumns]) \ {"PF"})
    => LET withPf   == AssignCol(call.before, "PF",
                                 [i \in 1..NumRows(call.before) |-> Num(0)])
           expected == calculate_advanced_metrics(<<withPf>>, 1)
           want     == expected.heap[expected.ret]
           got      == heap[call.ret]
       IN  /\ DerivedColumnNames \subseteq ColSet(got)
           /\ \A i \in 1..NumRows(got) : \A c \in DerivedColumnNames :
                  got.rows[i][c] = want.rows[i][c]

\* C3: for every record whose base fields are all present and numeric, every
\* derived field of the enriched record is a finite number.
C3_DerivedFieldsFinite ==
    (call.op = "calculate_advanced_metrics"
       /\ NumericColSet \subseteq ColSet(call.before)
       /\ ~call.failed)
    => \A i \in 1..NumRows(call.before) :
          (\A c \in NumericColSet : call.before.rows[i][c].k = "num")
          => \A c \in DerivedColumnNames : IsFinite(heap[call.ret].rows[i][c])

\* The string is MM:SS, both parts digits.
IsClockString(v) ==
    /\ v.k = "str"
    /\ Contains(v.s, ":")
    /\ IsDigitString(SplitHead(v.s, ":"))
    /\ IsDigitString(SubSeq(v.s, FirstPos(v.s, ":") + 1, Len(v.s)))

\* MM + SS/60 for the string MM:SS.
ClockMinutes(v) ==
    FAdd(Num(DigitsToInt(SplitHead(v.s, ":"), 0)),
         FDiv(Num(DigitsToInt(SubSeq(v.s, FirstPos(v.s, ":") + 1, Len(v.s)), 0)), Num(60)))

\* C4: in the enriched frame, a record whose MIN is the string MM:SS has
\* MINUTES_PLAYED = MM + SS/60 and a record whose MIN is the number n has
\* MINUTES_PLAYED = n.
C4_MinutesParsed ==
    (call.op = "calculate_advanced_metrics" /\ ~call.failed)
    => \A i \in 1..NumRows(call.before) :
          LET min == call.before.rows[i]["MIN"]
              got == heap[call.ret].rows[i]["MINUTES_PLAYED"]
          IN  /\ IsClockString(min) => got = ClockMinutes(min)
              /\ min.k = "num" => got = min

MonthNames ==
    <<<<"J", "A", "N">>, <<"F", "E", "B">>, <<"M", "A", "R">>, <<"A", "P", "R">>,
      <<"M", "A", "Y">>, <<"J", "U", "N">>, <<"J", "U", "L">>, <<"A", "U", "G">>,
      <<"S", "E", "P">>, <<"O", "C", "T">>, <<"N", "O", "V">>, <<"D", "E", "C">>>>

\* The calendar day the string "MMM DD, YYYY" names, as YYYYMMDD.
CalendarDate(s) ==
    LET month == CHOOSE m \in 1..12 : MonthNames[m] = SubSeq(s, 1, 3)
        day   == DigitsToInt(SubSeq(s, 5, 6), 0)
        year  == DigitsToInt(SubSeq(s, 9, 12), 0)
    IN  year * 10000 + month * 100 + day

\* C5: the table get_player_stats returns is ordered most recent game first:
\* the calendar date of an earlier row is never before that of a later row.
C5_MostRecentFirst ==
    (Projected /\ call.ret # None)
    => LET out == heap[call.ret]
       IN  \A i, j \in 1..NumRows(out) :
              i < j => CalendarDate(out.rows[i]["GAME_DATE"].s)
                         >= CalendarDate(out.rows[j]["GAME_DATE"].s)

\* The position in the input batch of the record with index label l and game
\* date d.
InputPositions(t, l, d) ==
    {a \in 1..NumRows(t) : t.index[a] = l /\ t.rows[a]["GAME_DATE"] = d}

\* C6: the sort of the projection is stable: two records with equal
\* GAME_DATE appear in the table in the relative order they had in the input.
C6_SortStable ==
    (Projected /\ call.ret # None)
    => LET out == heap[call.ret]
           inp == call.before
       IN  \A i, j \in 1..NumRows(out) :
              (i < j /\ out.rows[i]["GAME_DATE"] = out.rows[j]["GAME_DATE"])
              => \E a \in InputPositions(inp, out.index[i], out.rows[i]["GAME_DATE"]) :
                 \E b \in InputPositions(inp, out.index[j], out.rows[j]["GAME_DATE"]) :
                     a < b

\* The retrieval reached the provider and every request it made succeeded.
Retrieved ==
    /\ call.found
    /\ call.error # "current"
    /\ ~(call.prev_requested /\ call.error = "previous")

\* The number of raw records the retrieval fetched.
FetchedRows ==
    NumRows(provider.current)
      + (IF call.prev_requested THEN NumRows(provider.previous) ELSE 0)

\* get_player_stats was called and zero raw records were fetched.
EmptyInput == call.op = "get_player_stats" /\ Retrieved /\ FetchedRows = 0

\* C7 as stated: on an empty input the caller receives an empty table, not
\* None and not an exception.
C7_EmptyInputGivesEmptyTable ==
    EmptyInput => (call.raised = "none" /\ call.ret # None /\ NumRows(heap[call.ret]) = 0)

\* C7 amended: on an empty input get_player_stats raises nothing and returns
\* None in place of a table; derivation and projection are not run.
C7_EmptyInputGivesNone ==
    EmptyInput => (call.raised = "none" /\ call.ret = None /\ call.arg = None)

C7_Witness == EmptyInput /\ call.ret = None /\ call.num_games > 0

\* C8: when the try block of calculate_advanced_metrics fails, the call
\* returns the object the caller passed, with the contents it had at the
\* call: same columns, same uncoerced values, no derived column.
C8_FailureReturnsOriginal ==
    (Derived /\ call.failed)
    => (call.stats = call.arg /\ heap[call.stats] = call.before)

\* A failed call on a batch that holds a value the coercion would change.
C8_Witness ==
    /\ call.op = "calculate_advanced_metrics"
    /\ call.failed
    /\ \E i \in 1..NumRows(call.before) : \E c \in DOMAIN call.before.rows[i] :
          c \in NumericColSet /\ call.before.rows[i][c].k \in {"str", "nan"}

\* C9: calculate_advanced_metrics never mutates the frame it is passed:
\* after the call, failed or not, the caller's frame has the columns and the
\* values it had before.
C9_InputNotMutated ==
    Derived => heap[call.arg] = call.before

\* A successful call that coerced a value and added the derived columns.
C9_Witness ==
    /\ call.op = "calculate_advanced_metrics"
    /\ ~call.failed
    /\ DerivedColumnNames \subseteq ColSet(heap[call.ret])
    /\ \E i \in 1..NumRows(call.before) :
          /\ call.before.rows[i]["MIN"].k = "str"
          /\ heap[call.ret].rows[i]["MIN"].k = "num"

\* cols lists, without repetition and in the order of ts_columns, exactly
\* the columns of ts_columns that are in have.
IsCanonicalSelection(cols, have) ==
    /\ \A i \in 1..Len(cols) : cols[i] \in have
    /\ \A j \in 1..Len(ts_columns) :
          ts_columns[j] \in have => \E i \in 1..Len(cols) : cols[i] = ts_columns[j]
    /\ \A i1, i2 \in 1..Len(cols) :
          i1 < i2 => \E j1, j2 \in 1..Len(ts_columns) :
                        j1 < j2 /\ ts_columns[j1] = cols[i1] /\ ts_columns[j2] = cols[i2]

\* C10: the columns of the table get_player_stats returns are the canonical
\* columns that exist in the enriched frame, in canonical order, and nothing
\* else; a canonical column the enriched frame lacks is left out without an
\* error.
C10_CanonicalColumns ==
    Projected
    => /\ call.raised = "none"
       /\ call.ret # None
       /\ IsCanonicalSelection(heap[call.ret].cols, ColSet(heap[call.stats]))

-----------------------------------------------------------------------------
(* Properties of the formulas *)

\* The derivation ran to its end; call.stats is the enriched frame, whose
\* base columns hold the coerced, zero-filled values.
Enriched == Derived /\ ~call.failed

\* q is the quotient num/den of two finite numbers, den # 0.
IsQuotient(q, num, den) == q.k = "num" /\ FMul(q, den) = num

\* The coefficients of the game score, in tenths.
GameScoreWeights ==
    <<<<"PTS", 10>>, <<"FGM", 4>>, <<"FGA", -7>>, <<"FTA", -4>>, <<"FTM", 4>>,
      <<"OREB", 7>>, <<"DREB", 3>>, <<"STL", 10>>, <<"AST", 7>>, <<"BLK", 7>>,
      <<"PF", -4>>, <<"TOV", -10>>>>

\* The sum of w[i][2]/10 * r[w[i][1]] over the entries i, i+1, ... of w.
RECURSIVE WeightedSum(_, _, _)
WeightedSum(r, w, i) ==
    IF i > Len(w) THEN Num(0)
    ELSE FAdd(FMul(Rat(w[i][2], 10), r[w[i][1]]), WeightedSum(r, w, i + 1))

\* The record of the example: FGM=10, FGA=20, FTA=5, FTM=4, OREB=2, DREB=6,
\* STL=1, AST=5, BLK=1, PF=3, TOV=2, PTS=25.
IsScoreExample(r) ==
    /\ r["FGM"] = Num(10) /\ r["FGA"] = Num(20) /\ r["FTA"] = Num(5)
    /\ r["FTM"] = Num(4)  /\ r["OREB"] = Num(2) /\ r["DREB"] = Num(6)
    /\ r["STL"] = Num(1)  /\ r["AST"] = Num(5)  /\ r["BLK"] = Num(1)
    /\ r["PF"] = Num(3)   /\ r["TOV"] = Num(2)  /\ r["PTS"] = Num(25)

\* C11 as stated: game_score is the linear combination PTS + 0.4*FGM -
\* 0.7*FGA - 0.4*(FTA-FTM) + 0.7*OREB + 0.3*DREB + STL + 0.7*AST + 0.7*BLK -
\* 0.4*PF - TOV, and it is 20.8 for the record of the example.
C11_GameScoreExample208 ==
    Enriched
    => \A i \in 1..NumRows(heap[call.stats]) :
          /\ heap[call.stats].rows[i]["GAME_SCORE"]
                = WeightedSum(heap[call.stats].rows[i], GameScoreWeights, 1)
          /\ IsScoreExample(heap[call.stats].rows[i])
                => heap[call.stats].rows[i]["GAME_SCORE"] = Rat(208, 10)

\* C11 amended: game_score is that linear combination, and it is 19.8 for the
\* record of the example.
C11_GameScoreLinear ==
    Enriched
    => \A i \in 1..NumRows(heap[call.stats]) :
          /\ heap[call.stats].rows[i]["GAME_SCORE"]
                = WeightedSum(heap[call.stats].rows[i], GameScoreWeights, 1)
          /\ IsScoreExample(heap[call.stats].rows[i])
                => heap[call.stats].rows[i]["GAME_SCORE"] = Rat(198, 10)

C11_Witness ==
    /\ Enriched
    /\ \E i \in 1..NumRows(heap[call.stats]) : IsScoreExample(heap[call.stats].rows[i])

\* The guarded ratios of one enriched record.
GuardedRatiosOf(r) ==
    /\ IF GtZero(r["FGA"])
       THEN IsQuotient(r["FG_PCT"], r["FGM"], r["FGA"])
       ELSE r["FG_PCT"] = Num(0)
    /\ IF GtZero(FAdd(r["FGA"], FMul(Rat(44, 100), r["FTA"])))
       THEN IsQuotient(r["TS_PCT"], r["PTS"],
                       FMul(Num(2), FAdd(r["FGA"], FMul(Rat(44, 100), r["FTA"]))))
       ELSE r["TS_PCT"] = Num(0)
    /\ IF GtZero(r["MINUTES_PLAYED"])
       THEN /\ IsQuotient(r["PTS_PER_MIN"], r["PTS"], r["MINUTES_PLAYED"])
            /\ r["DEF_RATING"].k = "num"
            /\ IsQuotient(FSub(Num(100), r["DEF_RATING"]),
                          FSub(FSub(FMul(Num(5), FAdd(r["STL"], r["BLK"])), r["PF"]),
                               r["PLUS_MINUS"]),
                          r["MINUTES_PLAYED"])
       ELSE r["PTS_PER_MIN"] = Num(0) /\ r["DEF_RATING"] = Num(0)
    /\ IF GtZero(r["POSS"])
       THEN IsQuotient(r["OFF_RATING"],
                       FMul(Num(100), FAdd(r["PTS"], FMul(Rat(15, 10), r["AST"]))),
                       r["POSS"])
       ELSE r["OFF_RATING"] = Num(0)

\* C12: each guarded ratio is 0 when its guard does not hold and its formula
\* otherwise: FG_PCT (FGA > 0), TS_PCT (FGA + 0.44*FTA > 0), PTS_PER_MIN and
\* DEF_RATING (MINUTES_PLAYED > 0), OFF_RATING (POSS > 0).
C12_GuardedRatios ==
    Enriched
    => \A i \in 1..NumRows(heap[call.stats]) : GuardedRatiosOf(heap[call.stats].rows[i])

\* An enriched frame with a record on which no guard holds and a record on
\* which every guard holds.
C12_Witness ==
    /\ Enriched
    /\ \E i, j \in 1..NumRows(heap[call.stats]) :
          /\ ~GtZero(heap[call.stats].rows[i]["FGA"])
          /\ ~GtZero(heap[call.stats].rows[i]["MINUTES_PLAYED"])
          /\ ~GtZero(heap[call.stats].rows[i]["POSS"])
          /\ GtZero(heap[call.stats].rows[j]["FGA"])
          /\ GtZero(heap[call.stats].rows[j]["MINUTES_PLAYED"])
          /\ GtZero(heap[call.stats].rows[j]["POSS"])

\* The value is missing, or a string pd.to_numeric cannot parse.
IsMissingOrUnparsable(v) == v.k = "nan" \/ (v.k = "str" /\ ~IsDigitString(v.s))

\* The batch with 0 written in place of every missing or unparsable numeric
\* value.
ZeroWritten(t) ==
    [cols  |-> t.cols,
     index |-> t.index,
     rows  |-> [i \in 1..Len(t.rows) |->
                  [x \in DOMAIN t.rows[i] |->
                      IF x \in NumericColSet /\ IsMissingOrUnparsable(t.rows[i][x])
                      THEN Num(0) ELSE t.rows[i][x]]]]

\* C13: in a batch that has every numeric column, a numeric value that is
\* missing or unparsable is 0 in the enriched record, every derived metric of
\* the record is the one computed from that 0, and no record is dropped.
C13_MissingValuesAreZero ==
    (Derived /\ NumericColSet \subseteq ColSet(call.before))
    => /\ ~call.failed
       /\ NumRows(heap[call.stats]) = NumRows(call.before)
       /\ \A i \in 1..NumRows(call.before) :
             /\ \A c \in NumericColSet :
                   IsMissingOrUnparsable(call.before.rows[i][c])
                   => heap[call.stats].rows[i][c] = Num(0)
             /\ \A c \in DerivedColumnNames :
                   /\ c \in DOMAIN heap[call.stats].rows[i]
                   /\ \E e \in {calculate_advanced_metrics(<<ZeroWritten(call.before)>>, 1)} :
                         heap[call.stats].rows[i][c] = e.heap[e.ret].rows[i][c]

\* A batch with every numeric column and a record with a missing and an
\* unparsable value went through the derivation.
C13_Witness ==
    /\ Derived
    /\ NumericColSet \subseteq ColSet(call.before)
    /\ \E i \in 1..NumRows(call.before) :
          /\ call.before.rows[i]["FGA"].k = "nan"
          /\ call.before.rows[i]["PTS"].k = "str"
          /\ heap[call.stats].rows[i]["PTS"] = Num(0)

\* How many records of t have the value v in column c.
CountOf(t, c, v) == Cardinality({i \in 1..NumRows(t) : t.rows[i][c] = v})

\* C14: derivation and projection conserve records: the enriched frame and
\* the table returned have as many rows as the input, with the same GAME_ID
\* values the same number of times.
C14_RecordsConserved ==
    /\ Derived => NumRows(heap[call.stats]) = NumRows(call.before)
    /\ (Projected /\ call.ret # None)
       => /\ NumRows(heap[call.ret]) = NumRows(call.before)
          /\ ("GAME_ID" \in ColSet(call.before)) = ("GAME_ID" \in ColSet(heap[call.ret]))
          /\ "GAME_ID" \in ColSet(call.before)
             => \A i \in 1..NumRows(call.before) :
                   CountOf(heap[call.ret], "GAME_ID", call.before.rows[i]["GAME_ID"])
                     = CountOf(call.before, "GAME_ID", call.before.rows[i]["GAME_ID"])

\* A table of two games with different GAME_ID was returned.
C14_Witness ==
    /\ Projected
    /\ call.ret # None
    /\ NumRows(heap[call.ret]) >= 2
    /\ "GAME_ID" \in ColSet(heap[call.ret])
    /\ heap[call.ret].rows[1]["GAME_ID"] # heap[call.ret].rows[2]["GAME_ID"]

\* C15: AST_TO_RATIO is AST / TOV when TOV > 0 and AST itself when TOV <= 0.
C15_AssistTurnoverRatio ==
    Enriched
    => \A i \in 1..NumRows(heap[call.stats]) :
          IF GtZero(heap[call.stats].rows[i]["TOV"])
          THEN IsQuotient(heap[call.stats].rows[i]["AST_TO_RATIO"],
                          heap[call.stats].rows[i]["AST"],
                          heap[call.stats].rows[i]["TOV"])
          ELSE heap[call.stats].rows[i]["AST_TO_RATIO"] = heap[call.stats].rows[i]["AST"]

\* An enriched frame with a record TOV = 0, AST = 5 (ratio 5) and a record
\* with TOV > 0.
C15_Witness ==
    /\ Enriched
    /\ \E i, j \in 1..NumRows(heap[call.stats]) :
          /\ heap[call.stats].rows[i]["TOV"] = Num(0)
          /\ heap[call.stats].rows[i]["AST"] = Num(5)
          /\ heap[call.stats].rows[i]["AST_TO_RATIO"] = Num(5)
          /\ GtZero(heap[call.stats].rows[j]["TOV"])

-----------------------------------------------------------------------------
(* Properties of the retrieval *)

\* get_recent_game_logs was called directly.
LogsCalled == call.op = "get_recent_game_logs"

\* The raw records the provider handed over, current season first.
FetchedRecords ==
    (IF call.found /\ call.error # "current" THEN provider.current.rows ELSE <<>>)
      \o (IF call.prev_requested /\ call.error # "previous"
          THEN provider.previous.rows ELSE <<>>)

\* The rows of the returned frame are the first n fetched records.
ReturnsFirst(n) ==
    IF n = 0 THEN call.ret = None
    ELSE /\ call.ret # None
         /\ heap[call.ret].rows = SubSeq(FetchedRecords, 1, n)

\* C17 as stated: the previous season is requested exactly when the current
\* season's log has fewer than num_games rows; for num_games >= 1 the result
\* is the first min(num_games, total) fetched rows, current season first, or
\* None when total is 0; the result never has more than num_games rows.
C17_AsStated ==
    LogsCalled
    => /\ (call.found /\ call.error # "current")
          => (call.prev_requested <=> NumRows(provider.current) < call.num_games)
       /\ call.num_games >= 1
          => ReturnsFirst(Min(call.num_games, Len(FetchedRecords)))
       /\ call.ret # None => NumRows(heap[call.ret]) <= call.num_games

\* C17 amended: as stated when the player is found and no request raises,
\* the bound on the rows for num_games >= 0 only; None when the player is not
\* found or a request raises; for num_games < 0 the current season's rows
\* without the last -num_games.
C17_RecentGameLogs ==
    LogsCalled
    => /\ (call.found /\ call.error # "current")
          => (call.prev_requested <=> NumRows(provider.current) < call.num_games)
       /\ ~Retrieved => call.ret = None
       /\ (Retrieved /\ call.num_games >= 1)
          => ReturnsFirst(Min(call.num_games, Len(FetchedRecords)))
       /\ (Retrieved /\ call.num_games >= 0 /\ call.ret # None)
          => NumRows(heap[call.ret]) <= call.num_games
       /\ (Retrieved /\ call.num_games < 0)
          => ReturnsFirst(Max(Len(FetchedRecords) + call.num_games, 0))

\* Both seasons were fetched, each with a record, and the result is full.
C17_Witness ==
    /\ LogsCalled
    /\ Retrieved
    /\ call.prev_requested
    /\ NumRows(provider.current) > 0
    /\ NumRows(provider.previous) > 0
    /\ call.ret # None
    /\ NumRows(heap[call.ret]) = call.num_games

-----------------------------------------------------------------------------
(* Properties of concurrent derivation calls *)

\* C16: two calls of calculate_advanced_metrics on equal inputs return equal
\* results, whatever other calls ran before them or between their steps.
C16_EqualInputsEqualResults ==
    \A a, b \in Threads :
        (tasks[a].pc = "done" /\ tasks[b].pc = "done"
            /\ tasks[a].before = tasks[b].before)
        => /\ tasks[a].failed = tasks[b].failed
           /\ heap[tasks[a].ret] = heap[tasks[b].ret]

\* Two calls on equal inputs have returned, and a call on another input ran
\* its first half between the two halves of one of them.
C16_Witness ==
    \E a, b, c \in Threads :
        /\ a # b
        /\ tasks[a].pc = "done" /\ tasks[b].pc = "done" /\ tasks[c].pc # "idle"
        /\ tasks[a].before = tasks[b].before
        /\ tasks[c].before # tasks[a].before
        /\ ~tasks[a].failed
        /\ tasks[a].df < tasks[c].arg
        /\ tasks[c].arg < tasks[a].ret

-----------------------------------------------------------------------------
(* Properties of the database and of the collector that reads it *)

\* The games stored under game_id when the last call was made.
StoredGames(game_id) == {g \in dbcall.before.games : g.game_id = game_id}

\* C18: with a Database and the game_id of a stored game,
\* get_game_players_stats returns a dictionary whose keys are the game's
\* home team and away team.
C18_KeyedByTeams ==
    (dbcall.op = "get_game_players_stats" /\ dbcall.has_db
        /\ StoredGames(dbcall.arg) # {})
    => \A g \in StoredGames(dbcall.arg) :
          DOMAIN dbcall.ret = {g.home_team, g.away_team}

\* C19: no connection get_connection opened is open once the call that
\* opened it is over, whether the with-block ended or raised.
C19_ConnectionsClosed ==
    \A i \in 1..Len(db.conns) : db.conns[i] = "closed"

\* After a call that stored nothing, a with-block was left by an exception
\* that is not a sqlite3.Error, and its connection is closed.
C19_Witness ==
    /\ dbcall.raised = "TypeError"
    /\ dbcall.conn > 1
    /\ db.conns[dbcall.conn] = "closed"
    /\ dbcall.before.games = {}
    /\ dbcall.before.reddit_posts = {}

\* The rows stored under the reddit_id of the last call when it was made.
StoredPosts == {p \in dbcall.before.reddit_posts : p.reddit_id = dbcall.arg["reddit_id"]}

\* C20: insert_reddit_post with a reddit_id that is stored returns the
\* post_id of the stored row and leaves the table as it was; no two rows
\* have the same reddit_id, and every call that returned for a reddit_id
\* returned the post_id of its row.
C20_IdempotentPerRedditId ==
    /\ (dbcall.op = "insert_reddit_post" /\ "reddit_id" \in DOMAIN dbcall.arg
           /\ "created_utc" \in DOMAIN dbcall.arg /\ StoredPosts # {})
       => /\ dbcall.raised = "none"
          /\ \A p \in StoredPosts : dbcall.ret = p.post_id
          /\ db.reddit_posts = dbcall.before.reddit_posts
    /\ \A p, q \in db.reddit_posts : p.reddit_id = q.reddit_id => p = q
    /\ \A r \in post_ids :
          \E p \in db.reddit_posts : p.reddit_id = r[1] /\ p.post_id = r[2]

\* A call for a stored reddit_id, with another title, returned after two
\* posts had been stored.
C20_Witness ==
    /\ dbcall.op = "insert_reddit_post"
    /\ dbcall.raised = "none"
    /\ Cardinality(dbcall.before.reddit_posts) = 2
    /\ \E p \in dbcall.before.reddit_posts :
          /\ p.reddit_id = dbcall.arg["reddit_id"]
          /\ p.title # dbcall.arg["title"]
          /\ p.post_id = dbcall.ret

\* The last call was insert_sentiment_analysis with neither post_id nor
\* comment_id, or with no value under the keys it gave.
SentimentWithoutSource ==
    /\ dbcall.op = "insert_sentiment_analysis"
    /\ IntCol(dbcall.arg, "post_id") = 0
    /\ IntCol(dbcall.arg, "comment_id") = 0

\* C21: every row of sentiment_analysis has a post_id or a comment_id that
\* is not null; a call that gives neither key, or gives the keys with null
\* values, raises and leaves the table as it was.
C21_SentimentHasSource ==
    /\ \A x \in db.sentiment_analysis : x.post_id # 0 \/ x.comment_id # 0
    /\ SentimentWithoutSource
       => /\ dbcall.raised # "none"
          /\ db.sentiment_analysis = dbcall.before.sentiment_analysis

\* With a row stored, a call that gave both keys with null values reached
\* the INSERT and was rejected there.
C21_Witness ==
    /\ SentimentWithoutSource
    /\ {"post_id", "comment_id"} \subseteq DOMAIN dbcall.arg
    /\ dbcall.raised = "IntegrityError"
    /\ dbcall.before.sentiment_analysis # {}
    /\ db.sentiment_analysis = dbcall.before.sentiment_analysis

====
